---- MODULE Spec2Model ----
(***************************************************************************)
(* Model of lttb_downsample (backend/main.py), the Largest-Triangle-Three- *)
(* Buckets downsampler.  One behaviour is one call: Init draws the         *)
(* arguments, the actions are the consecutive blocks of the function body. *)
(*                                                                         *)
(* Python sequences are 0-based; At(s, j) reads s[j].                      *)
(* bucket_size is the float (n-2)/(target_points-2); it is kept as the     *)
(* pair <<n-2, target_points-2>> and floor(k*bucket_size) is computed as   *)
(* the integer quotient, corrected by FloatRoundsBelow where the double    *)
(* product k*bucket_size rounds to just below the integer it should reach  *)
(* (first at n=17, target_points=13; the table is complete up to n=17).    *)
(* avg_x, avg_y are kept as the window sums and every area is scaled by    *)
(* the window length; while the window length is 1, 2 or 4 (every input   *)
(* of Init with data_length <= 6, and every input of InitLong) the float   *)
(* divisions are exact and the scaled comparison is the float comparison   *)
(* (a division by 3, first at data_length 7, rounds and can break a tie of *)
(* equal areas differently).                                               *)
(*                                                                         *)
(* Every name assigned in the function body is a local of one call frame.  *)
(* Recall starts the same call again; Switch hands the processor to a      *)
(* second call whose frame is kept in parked.                              *)
(*                                                                         *)
(* SpecStats is one call of calculate_statistical_data: Init draws what    *)
(* the expression of each statistic yields, the actions are the            *)
(* assignments of the try block, the except handler and the return.        *)
(* SpecStore is the directory /tmp/upload_cache with the endpoints of      *)
(* main.py and data_viz.py that write it or read it by file id; one        *)
(* action is one request.                                                  *)
(*                                                                         *)
(* SpecSeries is one call of lttb_downsample on series that may hold NaN.  *)
(* SpecDecimate is the response-size limit of process_signal, SpecAnn the  *)
(* model files and ACTIVE_MODELS of ann_router.py, SpecSvm the selection   *)
(* of the best model in train_svm_model.                                   *)
(***************************************************************************)
EXTENDS Integers, Sequences, FiniteSets, TLC

VARIABLES x_data, y_data, target_points, pc, bucket_size, i, a,
          sampled_x, sampled_y, sampled_idx, outcome, ret_x, ret_y,
          ret_alias, scanned,
          history, parked, cur, phase,
          params, stat_in, stat_k, stat_pc,
          cache, issued, resp, served, expected,
          signal_len, subset_len, dec_pc,
          clock, model_files, ACTIVE_MODELS, model_ids, trainings, ann_resp,
          test_size_list, kernel_list, auc_of, ts_pos, kernel_pos,
          best_overall_model, best_overall_auc, best_overall_config,
          svm_files, svm_resp, svm_pc

\* the frame of the running call: arguments, locals, result
\* (sampled_idx and scanned record the indices appended and the candidate
\* indices visited; ret_alias tells whether the returned objects are the
\* argument objects or new arrays)
frame == <<x_data, y_data, target_points, pc, bucket_size, i, a,
           sampled_x, sampled_y, sampled_idx, outcome, ret_x, ret_y,
           ret_alias, scanned>>

\* one call of calculate_statistical_data: the dict under construction, the
\* outcome of each statistic's expression, the next statistic, the position
stats == <<params, stat_in, stat_k, stat_pc>>

\* the upload cache directory, the file ids handed out by
\* /api/upload-with-progress, the last response, the requests served, and
\* for each data-viz upload the dataset its cleaning requests add up to
store == <<cache, issued, resp, served, expected>>

\* the response-size limit of one /api/process request: the number of
\* samples of the signal, the number of samples of each response array
decim == <<signal_len, subset_len, dec_pc>>

\* the ANN models: the clock in whole seconds, the pickle files of
\* /tmp/ann_models, the dict ACTIVE_MODELS, the model ids returned by the
\* successful train requests in order, their number, the last response
ann == <<clock, model_files, ACTIVE_MODELS, model_ids, trainings, ann_resp>>

\* one /api/svm/train request: the two parameter lists, the AUC each fitted
\* pair scores, the position of the two loops, the best_overall_* locals,
\* the pickle files of the model directory, the response
svm == <<test_size_list, kernel_list, auc_of, ts_pos, kernel_pos,
         best_overall_model, best_overall_auc, best_overall_config,
         svm_files, svm_resp, svm_pc>>

jobs == <<decim, ann, svm>>

\* what lies outside the running call
env == <<history, parked, cur, phase, stats, store, jobs>>

vars == <<frame, env>>

\* Longest argument sequence drawn by Init.
MaxLen == 5
\* Largest target_points drawn by Init.
MaxTarget == 6

XVals == {0, 1}
YVals == {0, 1}

SeqsUpTo(S, n) == UNION {[1..k -> S] : k \in 0..n}

\* s[j] with Python's 0-based index
At(s, j) == s[j + 1]

Abs(v) == IF v < 0 THEN -v ELSE v

Min(u, v) == IF u < v THEN u ELSE v

RECURSIVE SumRange(_, _, _)
\* sum of s[j] for j in range(lo, hi)
SumRange(s, lo, hi) == IF lo >= hi THEN 0 ELSE At(s, lo) + SumRange(s, lo + 1, hi)

data_length == Len(x_data)

\* <<n-2, target_points-2, k>> for which the double k * ((n-2)/(target_points-2))
\* is below the integer k*(n-2)/(target_points-2), for every n <= 17
FloatRoundsBelow == {<<15, 11, 11>>, <<15, 13, 13>>}

\* floor of k * num / den in exact arithmetic
ExactFloor(k, num, den) == (k * num) \div den

\* int(np.floor(k * (num / den))) in double arithmetic
FloatFloor(k, num, den) ==
    IF <<num, den, k>> \in FloatRoundsBelow
    THEN ExactFloor(k, num, den) - 1
    ELSE ExactFloor(k, num, den)

\* int(np.floor(k * bucket_size))
FloorMul(k) == FloatFloor(k, bucket_size[1], bucket_size[2])

avg_range_start == FloorMul(i + 1) + 1

\* (i + 1) where the code has (i + 2): the window ends where it starts
avg_range_endMut == Min(FloorMul(i + 1) + 1, data_length)

avg_range_end == Min(FloorMul(i + 2) + 1, data_length)

avg_range_length == avg_range_end - avg_range_start

\* bucket start without the + 1 that skips the first point
range_offsMut == FloorMul(i + 0)

range_offs == FloorMul(i + 0) + 1

\* bucket end without the + 1: the last index of each bucket is skipped
range_toMut == FloorMul(i + 1)

range_to == FloorMul(i + 1) + 1

\* avg_x and avg_y are sum/avg_range_length, left at 0.0 for an empty window.
\* AvgScale is the common denominator the areas are scaled by.
AvgScale == IF avg_range_length > 0 THEN avg_range_length ELSE 1

SumX == SumRange(x_data, avg_range_start, avg_range_end)

SumY == SumRange(y_data, avg_range_start, avg_range_end)

\* the signed area: abs() left out
AreaMut(j) ==
    (At(x_data, a) * AvgScale - SumX) * (At(y_data, j) - At(y_data, a))
    - (At(x_data, a) - At(x_data, j)) * (SumY - At(y_data, a) * AvgScale)

\* 2 * AvgScale * area of the triangle (point a, candidate j, average point)
Area(j) ==
    Abs((At(x_data, a) * AvgScale - SumX) * (At(y_data, j) - At(y_data, a))
        - (At(x_data, a) - At(x_data, j)) * (SumY - At(y_data, a) * AvgScale))

\* float("nan") as an element of x_data or y_data
NaN == -999

\* the area of candidate j is NaN: one of the floats it is computed from is
\* (point a, the candidate, a point of the averaging window)
AreaIsNaN(j) ==
    \/ NaN \in {At(x_data, a), At(y_data, a), At(x_data, j), At(y_data, j)}
    \/ \E k \in avg_range_start..(avg_range_end - 1) :
          At(x_data, k) = NaN \/ At(y_data, k) = NaN

\* the comparison made on the number the formula gives, NaN or not
ExceedsMut(j, max_area) == Area(j) > max_area

\* area > max_area: false whenever area is NaN
Exceeds(j, max_area) == ~AreaIsNaN(j) /\ Area(j) > max_area

RECURSIVE ScanBucketMut(_, _, _)
\* area >= max_area: a later candidate of equal area replaces the earlier
ScanBucketMut(j, max_area, next_a) ==
    IF j >= range_to THEN next_a
    ELSE IF ~AreaIsNaN(j) /\ Area(j) >= max_area
         THEN ScanBucketMut(j + 1, Area(j), j)
         ELSE ScanBucketMut(j + 1, max_area, next_a)

RECURSIVE ScanBucket(_, _, _)
\* for j in range(range_offs, range_to): if area > max_area: keep j
\* (a comparison with a NaN area is false)
ScanBucket(j, max_area, next_a) ==
    IF j >= range_to THEN next_a
    ELSE IF Exceeds(j, max_area)
         THEN ScanBucket(j + 1, Area(j), j)
         ELSE ScanBucket(j + 1, max_area, next_a)

\* max_area = -1.0 ; next_a = range_offs ; scan of the current bucket
NextA == ScanBucket(range_offs, -1, range_offs)

\* indices of y_data read by one iteration
YReads == (avg_range_start .. (avg_range_end - 1))
          \cup (range_offs .. (range_to - 1)) \cup {a}

\* strict comparison: an input of exactly target_points is downsampled
PassThroughGuardMut == data_length < target_points

PassThroughGuard == data_length <= target_points

EmitX(j) == At(x_data, j)

\* appends the y of the previous selection, not of the new one
EmitYMut(j) == At(y_data, a)

EmitY(j) == At(y_data, j)

\* off by one: the point before the last one
LastIdxMut == IF data_length >= 2 THEN data_length - 2 ELSE data_length - 1

\* index denoted by x_data[-1]
LastIdx == data_length - 1

\* a call that has not started: the locals hold nothing yet
FreshFrame ==
    /\ pc = "start"
    /\ bucket_size = <<0, 1>>
    /\ i = 0
    /\ a = 0
    /\ sampled_x = <<>>
    /\ sampled_y = <<>>
    /\ sampled_idx = <<>>
    /\ outcome = "none"
    /\ ret_x = <<>>
    /\ ret_y = <<>>
    /\ ret_alias = "none"
    /\ scanned = <<>>

NoFrame == [pc |-> "absent"]

\* no statistics call under way
NoStats ==
    /\ params = <<>>
    /\ stat_in = <<>>
    /\ stat_k = 0
    /\ stat_pc = "idle"

\* the cache directory as created at import, no request served
NoStore ==
    /\ cache = <<>>
    /\ issued = <<>>
    /\ resp = [kind |-> "none"]
    /\ served = 0
    /\ expected = <<>>

\* best_overall_model = None
NoModel == [test_size |-> "none", kernel |-> "none"]

\* best_overall_config = {}
NoConfig == [kernel |-> "none", test_size |-> "none", auc |-> 0]

\* no model id, no fitted ANN model
NoModelId == [digest |-> "none", time |-> 0]

\* no /api/process response under construction
NoDecim ==
    /\ signal_len = 0
    /\ subset_len = 0
    /\ dec_pc = "idle"

\* MODEL_DIR as created at import, ACTIVE_MODELS = {}, no request served
NoAnn ==
    /\ clock = 0
    /\ model_files = <<>>
    /\ ACTIVE_MODELS = <<>>
    /\ model_ids = <<>>
    /\ trainings = 0
    /\ ann_resp = [kind |-> "none"]

\* no /api/svm/train request under way
NoSvm ==
    /\ test_size_list = <<>>
    /\ kernel_list = <<>>
    /\ auc_of = <<>>
    /\ ts_pos = 0
    /\ kernel_pos = 0
    /\ best_overall_model = NoModel
    /\ best_overall_auc = 0
    /\ best_overall_config = NoConfig
    /\ svm_files = <<>>
    /\ svm_resp = [kind |-> "none"]
    /\ svm_pc = "idle"

NoJobs ==
    /\ NoDecim
    /\ NoAnn
    /\ NoSvm

\* no downsampling call, no statistics call, an empty upload cache
OutsideJobs ==
    /\ x_data = <<>>
    /\ y_data = <<>>
    /\ target_points = 0
    /\ FreshFrame
    /\ history = <<>>
    /\ parked = NoFrame
    /\ cur = 1
    /\ phase = "single"
    /\ NoStats
    /\ NoStore

\* a single call, nothing around it
SingleCall ==
    /\ history = <<>>
    /\ parked = NoFrame
    /\ cur = 1
    /\ phase = "single"
    /\ NoStats
    /\ NoStore
    /\ NoJobs

Init ==
    /\ x_data \in SeqsUpTo(XVals, MaxLen)
    /\ y_data \in SeqsUpTo(YVals, MaxLen)
    /\ target_points \in 0..MaxTarget
    /\ FreshFrame
    /\ SingleCall

\* if data_length <= target_points: return x_data, y_data
PassThrough ==
    /\ pc = "start"
    /\ PassThroughGuard
    /\ ret_x' = x_data
    /\ ret_y' = y_data
    /\ ret_alias' = "args"
    /\ outcome' = "return"
    /\ pc' = "done"
    /\ UNCHANGED <<x_data, y_data, target_points, bucket_size, i, a,
                   sampled_x, sampled_y, sampled_idx,
                   scanned, env>>

\* sampled_x = [x_data[0]] ; sampled_y = [y_data[0]]
FirstPoint ==
    /\ pc = "start"
    /\ ~PassThroughGuard
    /\ Len(x_data) > 0 /\ Len(y_data) > 0
    /\ sampled_x' = <<EmitX(0)>>
    /\ sampled_y' = <<EmitY(0)>>
    /\ sampled_idx' = <<0>>
    /\ pc' = "bucket"
    /\ UNCHANGED <<x_data, y_data, target_points, bucket_size, i, a,
                   outcome, ret_x, ret_y,
                   ret_alias, scanned, env>>

\* x_data[0] or y_data[0] on an empty array
FirstPointIndexError ==
    /\ pc = "start"
    /\ ~PassThroughGuard
    /\ (Len(x_data) = 0 \/ Len(y_data) = 0)
    /\ outcome' = "IndexError"
    /\ pc' = "done"
    /\ UNCHANGED <<x_data, y_data, target_points, bucket_size, i, a,
                   sampled_x, sampled_y, sampled_idx, ret_x, ret_y,
                   ret_alias, scanned, env>>

\* a = 0 left out: a keeps the value an earlier call gave it
BucketSizeMut ==
    /\ pc = "bucket"
    /\ target_points - 2 # 0
    /\ bucket_size' = <<data_length - 2, target_points - 2>>
    /\ a' = a
    /\ i' = 0
    /\ pc' = "loop"
    /\ UNCHANGED <<x_data, y_data, target_points,
                   sampled_x, sampled_y, sampled_idx, outcome, ret_x, ret_y,
                   ret_alias, scanned, env>>

\* bucket_size = (data_length - 2) / (target_points - 2) ; a = 0
BucketSize ==
    /\ pc = "bucket"
    /\ target_points - 2 # 0
    /\ bucket_size' = <<data_length - 2, target_points - 2>>
    /\ a' = 0
    /\ i' = 0
    /\ pc' = "loop"
    /\ UNCHANGED <<x_data, y_data, target_points,
                   sampled_x, sampled_y, sampled_idx, outcome, ret_x, ret_y,
                   ret_alias, scanned, env>>

\* the same division with target_points == 2
BucketSizeZeroDivision ==
    /\ pc = "bucket"
    /\ target_points - 2 = 0
    /\ outcome' = "ZeroDivisionError"
    /\ pc' = "done"
    /\ UNCHANGED <<x_data, y_data, target_points, bucket_size, i, a,
                   sampled_x, sampled_y, sampled_idx, ret_x, ret_y,
                   ret_alias, scanned, env>>

\* one pass of: for i in range(target_points - 2)
Iterate ==
    /\ pc = "loop"
    /\ i < target_points - 2
    /\ \A j \in YReads : j < Len(y_data)
    /\ sampled_x' = Append(sampled_x, EmitX(NextA))
    /\ sampled_y' = Append(sampled_y, EmitY(NextA))
    /\ sampled_idx' = Append(sampled_idx, NextA)
    /\ scanned' = scanned \o [k \in 1..(range_to - range_offs) |-> range_offs + k - 1]
    /\ a' = NextA
    /\ i' = i + 1
    /\ UNCHANGED <<x_data, y_data, target_points, pc, bucket_size,
                   outcome, ret_x, ret_y,
                   ret_alias, env>>

\* a pass that reads y_data past its end (len(y_data) < len(x_data))
IterateIndexError ==
    /\ pc = "loop"
    /\ i < target_points - 2
    /\ \E j \in YReads : j >= Len(y_data)
    /\ outcome' = "IndexError"
    /\ pc' = "done"
    /\ UNCHANGED <<x_data, y_data, target_points, bucket_size, i, a,
                   sampled_x, sampled_y, sampled_idx, ret_x, ret_y,
                   ret_alias, scanned, env>>

\* sampled_x.append(x_data[-1]) ; sampled_y.append(y_data[-1]) ; return
Finish ==
    /\ pc = "loop"
    /\ ~(i < target_points - 2)
    /\ sampled_x' = Append(sampled_x, EmitX(LastIdx))
    /\ sampled_y' = Append(sampled_y, At(y_data, Len(y_data) - 1))
    /\ sampled_idx' = Append(sampled_idx, LastIdx)
    /\ ret_x' = sampled_x'
    /\ ret_y' = sampled_y'
    /\ ret_alias' = "new"
    /\ outcome' = "return"
    /\ pc' = "done"
    /\ UNCHANGED <<x_data, y_data, target_points, bucket_size, i, a,
                   scanned, env>>

\* what a call hands back to its caller
Result == [outcome |-> outcome, ret_x |-> ret_x, ret_y |-> ret_y]

ResultOf(f) == [outcome |-> f.outcome, ret_x |-> f.ret_x, ret_y |-> f.ret_y]

\* the running call's frame as one value
FrameRec ==
    [x_data |-> x_data, y_data |-> y_data, target_points |-> target_points,
     pc |-> pc, bucket_size |-> bucket_size, i |-> i, a |-> a,
     sampled_x |-> sampled_x, sampled_y |-> sampled_y,
     sampled_idx |-> sampled_idx, outcome |-> outcome,
     ret_x |-> ret_x, ret_y |-> ret_y, ret_alias |-> ret_alias,
     scanned |-> scanned]

\* the frame of a call of lttb_downsample(x, y, tp) that has not started
NewFrame(x, y, tp) ==
    [x_data |-> x, y_data |-> y, target_points |-> tp,
     pc |-> "start", bucket_size |-> <<0, 1>>, i |-> 0, a |-> 0,
     sampled_x |-> <<>>, sampled_y |-> <<>>, sampled_idx |-> <<>>,
     outcome |-> "none", ret_x |-> <<>>, ret_y |-> <<>>,
     ret_alias |-> "none", scanned |-> <<>>]

\* the same frame entered again: result and records cleared, the locals
\* keep whatever they held (the body assigns each before reading it)
Reentered(f) ==
    [f EXCEPT !.pc = "start", !.outcome = "none", !.ret_x = <<>>,
              !.ret_y = <<>>, !.ret_alias = "none", !.scanned = <<>>]

\* Largest number of calls with the same arguments in one behaviour.
MaxCalls == 2

\* the caller calls lttb_downsample again with the same arguments
Recall ==
    /\ phase = "repeat"
    /\ pc = "done"
    /\ Len(history) < MaxCalls - 1
    /\ history' = Append(history, Result)
    /\ pc' = "start"
    /\ outcome' = "none"
    /\ ret_x' = <<>>
    /\ ret_y' = <<>>
    /\ ret_alias' = "none"
    /\ scanned' = <<>>
    /\ UNCHANGED <<x_data, y_data, target_points, bucket_size, i, a,
                   sampled_x, sampled_y, sampled_idx, parked, cur, phase,
                   stats, store, jobs>>

\* a switch that leaves a where it is: a is one cell shared by all calls
SwitchMut ==
    /\ phase \in {"solo", "conc"}
    /\ parked.pc # "absent"
    /\ phase = "conc" \/ (pc = "done" /\ parked.pc = "start")
    /\ parked' = FrameRec
    /\ x_data' = parked.x_data
    /\ y_data' = parked.y_data
    /\ target_points' = parked.target_points
    /\ pc' = parked.pc
    /\ bucket_size' = parked.bucket_size
    /\ i' = parked.i
    /\ a' = a
    /\ sampled_x' = parked.sampled_x
    /\ sampled_y' = parked.sampled_y
    /\ sampled_idx' = parked.sampled_idx
    /\ outcome' = parked.outcome
    /\ ret_x' = parked.ret_x
    /\ ret_y' = parked.ret_y
    /\ ret_alias' = parked.ret_alias
    /\ scanned' = parked.scanned
    /\ cur' = 3 - cur
    /\ UNCHANGED <<history, phase, stats, store, jobs>>

\* the processor leaves the running call and resumes the other one: each
\* call keeps its own arguments and locals.  While phase = "solo" a call
\* runs to its end before the other one starts.
Switch ==
    /\ phase \in {"solo", "conc"}
    /\ parked.pc # "absent"
    /\ phase = "conc" \/ (pc = "done" /\ parked.pc = "start")
    /\ parked' = FrameRec
    /\ x_data' = parked.x_data
    /\ y_data' = parked.y_data
    /\ target_points' = parked.target_points
    /\ pc' = parked.pc
    /\ bucket_size' = parked.bucket_size
    /\ i' = parked.i
    /\ a' = parked.a
    /\ sampled_x' = parked.sampled_x
    /\ sampled_y' = parked.sampled_y
    /\ sampled_idx' = parked.sampled_idx
    /\ outcome' = parked.outcome
    /\ ret_x' = parked.ret_x
    /\ ret_y' = parked.ret_y
    /\ ret_alias' = parked.ret_alias
    /\ scanned' = parked.scanned
    /\ cur' = 3 - cur
    /\ UNCHANGED <<history, phase, stats, store, jobs>>

\* both calls have run alone; their results are kept in history and the
\* two calls are made again, now free to interleave
Restart ==
    /\ phase = "solo"
    /\ pc = "done"
    /\ parked.pc = "done"
    /\ history' = [k \in 1..2 |-> IF k = cur THEN Result ELSE ResultOf(parked)]
    /\ parked' = Reentered(parked)
    /\ pc' = "start"
    /\ outcome' = "none"
    /\ ret_x' = <<>>
    /\ ret_y' = <<>>
    /\ ret_alias' = "none"
    /\ scanned' = <<>>
    /\ phase' = "conc"
    /\ UNCHANGED <<x_data, y_data, target_points, bucket_size, i, a,
                   sampled_x, sampled_y, sampled_idx, cur, stats, store, jobs>>

Next ==
    \/ PassThrough
    \/ FirstPoint
    \/ FirstPointIndexError
    \/ BucketSize
    \/ BucketSizeZeroDivision
    \/ Iterate
    \/ IterateIndexError
    \/ Finish

Spec == Init /\ [][Next]_vars

\* ---- longer inputs: x = 0, 1, ..., n-1 ----

Ramp(n) == [k \in 1..n |-> k - 1]

Alt01(n) == [k \in 1..n |-> (k - 1) % 2]

Alt10(n) == [k \in 1..n |-> k % 2]

Pulse(n) == [k \in 1..n |-> IF k = n \div 2 THEN 1 ELSE 0]

Steps(n) == [k \in 1..n |-> ((k - 1) \div 2) % 2]

\* <<n, target_points>>
LongCases == {<<10, 4>>, <<17, 13>>, <<17, 15>>}

InitLong ==
    /\ \E c \in LongCases :
          /\ x_data = Ramp(c[1])
          /\ y_data \in {Alt01(c[1]), Alt10(c[1]), Pulse(c[1]), Steps(c[1])}
          /\ target_points = c[2]
    /\ FreshFrame
    /\ SingleCall

NextLong ==
    \/ FirstPoint
    \/ BucketSize
    \/ Iterate
    \/ Finish

SpecLong == InitLong /\ [][NextLong]_vars

\* ---- time series: x = 0, 1, ..., n-1, y with larger values and NaN ----

SeriesYVals == {0, 1, 2, NaN}

\* the ramp with a NaN in place of x[1]
RampNaN(n) == [k \in 1..n |-> IF k = 2 THEN NaN ELSE k - 1]

InitSeries ==
    /\ y_data \in SeqsUpTo(SeriesYVals, MaxLen)
    /\ x_data \in {Ramp(Len(y_data)), RampNaN(Len(y_data))}
    /\ target_points \in 3..MaxTarget
    /\ FreshFrame
    /\ SingleCall

NextSeries ==
    \/ PassThrough
    \/ FirstPoint
    \/ BucketSize
    \/ Iterate
    \/ Finish

SpecSeries == InitSeries /\ [][NextSeries]_vars

\* ---- the same call made again ----

InitRepeat ==
    /\ x_data \in SeqsUpTo(XVals, MaxLen)
    /\ y_data \in SeqsUpTo(YVals, MaxLen)
    /\ target_points \in 0..MaxTarget
    /\ FreshFrame
    /\ history = <<>>
    /\ parked = NoFrame
    /\ cur = 1
    /\ phase = "repeat"
    /\ NoStats
    /\ NoStore
    /\ NoJobs

NextRepeat ==
    \/ Next
    \/ Recall

SpecRepeat == InitRepeat /\ [][NextRepeat]_vars

\* ---- two calls sharing the processor ----

ConcX == {<<0, 1, 0, 1, 1>>, <<1, 0, 0, 1, 0>>, <<0, 0>>}

ConcY == {<<0, 1, 0, 0, 1>>, <<1, 1, 0, 1, 0>>, <<1, 0>>, <<>>}

ConcTargets == {2, 3, 4}

InitConc ==
    /\ x_data \in ConcX
    /\ y_data \in ConcY
    /\ target_points \in ConcTargets
    /\ FreshFrame
    /\ history = <<>>
    /\ \E x \in ConcX, y \in ConcY, tp \in ConcTargets : parked = NewFrame(x, y, tp)
    /\ cur = 1
    /\ phase = "solo"
    /\ NoStats
    /\ NoStore
    /\ NoJobs

NextConc ==
    \/ Next
    \/ Switch
    \/ Restart

SpecConc == InitConc /\ [][NextConc]_vars

\* ---- calculate_statistical_data ----

\* the keys in the order the try block assigns them
TryKeys ==
    <<"Mean", "Median", "Mode", "Std Dev", "Variance", "Mean Square", "RMS",
      "Max", "Peak-to-Peak", "Peak-to-RMS", "Skewness", "Kurtosis", "Energy",
      "Power", "Crest Factor", "Impulse Factor", "Shape Factor",
      "Shannon Entropy", "Signal-to-Noise Ratio", "Root Mean Square Error",
      "Maximum Error", "Mean Absolute Error", "Peak Signal-to-Noise Ratio",
      "Coefficient of Variation">>

\* the list the except handler walks
DefaultKeys ==
    <<"Mean", "Median", "Mode", "Std Dev", "Variance", "Mean Square", "RMS",
      "Max", "Peak-to-Peak", "Peak-to-RMS", "Skewness", "Kurtosis", "Energy",
      "Power", "Crest Factor", "Impulse Factor", "Shape Factor",
      "Shannon Entropy", "Signal-to-Noise Ratio", "Root Mean Square Error",
      "Maximum Error", "Mean Absolute Error", "Peak Signal-to-Noise Ratio",
      "Coefficient of Variation">>

Range(s) == {s[k] : k \in 1..Len(s)}

\* keys assigned "safe_float(...) if cond else 0.0" or under an if/else
GuardedKeys ==
    {"Peak-to-RMS", "Crest Factor", "Impulse Factor", "Shape Factor",
     "Signal-to-Noise Ratio", "Peak Signal-to-Noise Ratio",
     "Coefficient of Variation"}

\* What the expression of one statistic can do on some input: "v" a finite
\* number, "nan" and "inf" a non-finite float, "object" a value float()
\* rejects with TypeError or ValueError, "huge" a value float() rejects with
\* OverflowError, "raises" an exception out of the expression itself,
\* "guard_false" a false condition in front of the expression.
Faults == {"nan", "inf", "object", "huge", "raises", "guard_false"}

\* Largest number of statistics whose expression is not a finite number.
MaxFaults == 2

RECURSIVE FaultSets(_)
FaultSets(n) ==
    IF n = 0 THEN {{}}
    ELSE FaultSets(n - 1) \cup
         {S \cup {k} : S \in FaultSets(n - 1), k \in 1..Len(TryKeys)}

\* safe_float without the isfinite test
safe_floatMut(value) ==
    CASE value = "v" -> "v"
      [] value \in {"nan", "inf"} -> value
      [] value = "object" -> "0.0"
      [] OTHER -> "raise"

\* safe_float: float(value), 0.0 for a non-finite float and for ValueError
\* or TypeError; any other exception leaves the function ("raise")
safe_float(value) ==
    CASE value = "v" -> "v"
      [] value \in {"nan", "inf"} -> "0.0"
      [] value = "object" -> "0.0"
      [] OTHER -> "raise"

\* the value the assignment of statistic k stores, "raise" if it raises
Assigned(k) ==
    IF stat_in[k] = "guard_false" THEN "0.0"
    ELSE IF stat_in[k] = "raises" THEN "raise"
    ELSE safe_float(stat_in[k])

InitStats ==
    /\ x_data = <<>>
    /\ y_data = <<>>
    /\ target_points = 0
    /\ FreshFrame
    /\ history = <<>>
    /\ parked = NoFrame
    /\ cur = 1
    /\ phase = "single"
    /\ NoStore
    /\ NoJobs
    /\ params = <<>>
    /\ \E S \in FaultSets(MaxFaults) : \E g \in [S -> Faults] :
          /\ \A k \in S : g[k] = "guard_false" => TryKeys[k] \in GuardedKeys
          /\ stat_in = [k \in 1..Len(TryKeys) |-> IF k \in S THEN g[k] ELSE "v"]
    /\ stat_k = 1
    /\ stat_pc = "try"

\* params[key] = ... inside the try block
StatAssign ==
    /\ stat_pc = "try"
    /\ stat_k <= Len(TryKeys)
    /\ Assigned(stat_k) # "raise"
    /\ params' = (TryKeys[stat_k] :> Assigned(stat_k)) @@ params
    /\ stat_k' = stat_k + 1
    /\ UNCHANGED <<frame, history, parked, cur, phase, jobs, stat_in, stat_pc, store>>

\* a statement of the try block raises
StatRaise ==
    /\ stat_pc = "try"
    /\ stat_k <= Len(TryKeys)
    /\ Assigned(stat_k) = "raise"
    /\ stat_pc' = "except"
    /\ UNCHANGED <<frame, history, parked, cur, phase, jobs, params, stat_in, stat_k,
                   store>>

\* except Exception: every key of the list not in params becomes 0.0
StatDefaults ==
    /\ stat_pc = "except"
    /\ params' = [key \in DOMAIN params \cup Range(DefaultKeys) |->
                     IF key \in DOMAIN params THEN params[key] ELSE "0.0"]
    /\ stat_pc' = "handled"
    /\ UNCHANGED <<frame, history, parked, cur, phase, jobs, stat_in, stat_k, store>>

\* return params
StatReturn ==
    /\ \/ stat_pc = "try" /\ stat_k > Len(TryKeys)
       \/ stat_pc = "handled"
    /\ stat_pc' = "returned"
    /\ UNCHANGED <<frame, history, parked, cur, phase, jobs, params, stat_in, stat_k,
                   store>>

NextStats ==
    \/ StatAssign
    \/ StatRaise
    \/ StatDefaults
    \/ StatReturn

SpecStats == InitStats /\ [][NextStats]_vars

\* ---- the upload cache /tmp/upload_cache of main.py and data_viz.py ----

\* Column names of an uploaded table; a name is its "_"-separated fields.
Columns == {<<"c1">>, <<"c2">>}

\* Cell data of an uploaded table: without and with null cells.
Datas == {"full", "holes"}

\* Field separators of an uploaded text file.
Delims == {"comma", "semicolon"}

\* The columns of a table as uploaded.  A column maps to the number of
\* encodings its values have gone through, 0 for the uploaded values.
UploadedCols == [c \in Columns |-> 0]

\* File contents: the cell data, the columns, the separator, whether the
\* bytes are what DataFrame.to_csv(index=False) writes, whether they decode
\* as UTF-8 text.
UploadContents ==
    {c \in [data : Datas, cols : {UploadedCols}, delim : Delims,
            normal : BOOLEAN, text : {TRUE}] :
        c.normal => c.delim = "comma"}

\* A filename: its "_"-separated fields (the last one without the
\* extension) and the extension after the last ".".
Filenames ==
    {[parts |-> <<"sig">>, ext |-> "txt"],
     [parts |-> <<"run", "a">>, ext |-> "csv"],
     [parts |-> <<"img">>, ext |-> "bin"]}

\* A request body of /api/upload-with-progress: the file as sent, behind
\* gzip ("gzip"), behind the gzip magic bytes but not decompressible
\* ("corrupt"), or as it is ("raw").
Payloads == [enc : {"raw", "gzip", "corrupt"}, body : UploadContents]

\* contents after the gzip detection: the decompressed bytes, or the bytes
\* as received when there is no magic number or decompression fails
Decompressed(p) ==
    IF p.enc = "corrupt"
    THEN [data |-> p.body.data, cols |-> <<>>, delim |-> p.body.delim,
          normal |-> FALSE, text |-> FALSE]
    ELSE p.body

\* hashlib.sha256(contents).hexdigest()[:16]; the 64-bit prefix is taken as
\* free of collisions, so the digest stands for the contents
Sha16(contents) == contents

\* f"{file_hash}_{filename}" (prefix ""), f"dataviz_{file_hash}_{filename}"
FileId(prefix, contents, filename) ==
    [prefix |-> prefix, hash |-> Sha16(contents), name |-> filename]

\* file_id.split('_', 1)[1]: everything after the first "_"
MainFilename(fid) ==
    IF fid.prefix = "" THEN fid.name
    ELSE [parts |-> <<"hash">> \o fid.name.parts, ext |-> fid.name.ext]

\* number of "_"-separated fields of a file id
IdFields(fid) == (IF fid.prefix = "" THEN 1 ELSE 2) + Len(fid.name.parts)

\* file_id.split('_', 2)[2]: everything after the second "_"; IndexError
\* when the id has a single "_"
VizFilename(fid) ==
    IF fid.prefix = "" THEN [parts |-> Tail(fid.name.parts), ext |-> fid.name.ext]
    ELSE fid.name

\* parse_file_content succeeds
Parses(contents, filename) ==
    /\ filename.ext \in {"txt", "lvm", "csv", "xlsx"}
    /\ contents.text
    /\ DOMAIN contents.cols # {}

\* the header line of a semicolon-separated file read as one field
JoinedColumn == <<"c1;c2">>

\* pd.read_csv(StringIO(contents.decode('utf-8'))): the separator is the
\* comma, so a line of a semicolon-separated file is one field
VizParse(contents) ==
    IF contents.delim = "comma" THEN contents
    ELSE [contents EXCEPT !.cols = (JoinedColumn :> 0)]

\* the data-viz endpoints read the table: exists, split, read_csv
VizLoads(fid) ==
    /\ fid \in DOMAIN cache
    /\ IdFields(fid) >= 3
    /\ cache[fid].text
    /\ DOMAIN cache[fid].cols # {}

\* df.to_csv(output, index=False)
ToCsv(df) == [df EXCEPT !.normal = TRUE, !.delim = "comma"]

\* fillna / dropna on the column
Patched(df) ==
    [df EXCEPT !.data = IF @ = "holes" THEN "patched" ELSE @]

\* df.drop(columns=..., errors='ignore')
DropColumns(df, names) ==
    [df EXCEPT !.cols = [c \in DOMAIN df.cols \ names |-> df.cols[c]]]

\* f"{column}_original"
Original(column) == column \o <<"original">>

\* method 'label' and 'frequency': df[original_column] = df[column], then
\* df[column] replaced by its codes
LabelEncoded(df, column) ==
    [df EXCEPT !.cols =
        (Original(column) :> df.cols[column])
        @@ (column :> (df.cols[column] + 1))
        @@ df.cols]

\* method 'onehot': df[original_column] = df[column], the column dropped,
\* the dummy columns appended
OneHotEncoded(df, column) ==
    [df EXCEPT !.cols =
        (Original(column) :> df.cols[column])
        @@ ((column \o <<"dummy">>) :> (df.cols[column] + 1))
        @@ [c \in DOMAIN df.cols \ {column} |-> df.cols[c]]]

\* the table of a file, without the properties of its bytes
Dataset(contents) == [data |-> contents.data, cols |-> contents.cols]

NoContents ==
    [data |-> "none", cols |-> <<>>, delim |-> "comma", normal |-> FALSE,
     text |-> FALSE]

NoName == [parts |-> <<>>, ext |-> ""]

\* an id no upload has produced
AbsentId == FileId("", NoContents, [parts |-> <<"gone">>, ext |-> "txt"])

\* file_id = None
NoId == FileId("", NoContents, NoName)

\* the file ids a client can send
ClientIds == DOMAIN cache \cup {AbsentId}

ProcessEndpoints == {"/api/process", "/api/process-raw", "/api/plots/batch"}

VizReadEndpoints ==
    {"/api/data-viz/scatter-plot", "/api/data-viz/histogram",
     "/api/data-viz/correlation", "/api/data-viz/download-cleaned"}

CleaningEndpoints ==
    {"/api/data-viz/handle-nulls", "/api/data-viz/remove-correlated",
     "/api/data-viz/encode-categorical"}

\* Largest number of requests served in one behaviour.
MaxRequests == 3

Response(kind, status, fid, contents, filename) ==
    [kind |-> kind, status |-> status, detail |-> <<>>, file_id |-> fid,
     contents |-> contents, filename |-> filename]

\* an HTTPException leaving the handler
Failure(kind, status, detail, fid) ==
    [kind |-> kind, status |-> status, detail |-> detail, file_id |-> fid,
     contents |-> NoContents, filename |-> NoName]

\* except Exception as e: raise HTTPException(status_code=500,
\*     detail=f"Processing error: {str(e)}"); HTTPException is an Exception
Reraised(status, detail) ==
    [status |-> 500, detail |-> <<"Processing error">> \o detail]

\* the dataset a cleaning request leaves for file id fid: the operation
\* applied to the expected dataset, for the ids of data-viz uploads
Expect(fid, df) ==
    IF fid \in DOMAIN expected THEN (fid :> Dataset(df)) @@ expected
    ELSE expected

InitStore ==
    /\ x_data = <<>>
    /\ y_data = <<>>
    /\ target_points = 0
    /\ FreshFrame
    /\ history = <<>>
    /\ parked = NoFrame
    /\ cur = 1
    /\ phase = "single"
    /\ NoStats
    /\ NoStore
    /\ NoJobs

\* POST /api/upload-with-progress: the cache file is written before the
\* contents are parsed
UploadWithProgress ==
    /\ served < MaxRequests
    /\ \E p \in Payloads, fn \in Filenames :
          LET contents == Decompressed(p)
              fid == FileId("", contents, fn)
          IN  /\ cache' = (fid :> contents) @@ cache
              /\ IF Parses(contents, fn)
                 THEN /\ issued' = (fid :> [contents |-> contents,
                                            filename |-> fn]) @@ issued
                      /\ resp' = Response("/api/upload-with-progress", 200,
                                          fid, contents, fn)
                 ELSE /\ issued' = issued
                      /\ resp' = Failure("/api/upload-with-progress", 400,
                                         <<"Error parsing file">>, fid)
    /\ served' = served + 1
    /\ UNCHANGED <<frame, history, parked, cur, phase, jobs, stats, expected>>

\* POST /api/data-viz/upload: parsed first (the separator is detected),
\* cached under dataviz_<hash>_<name>
UploadDataViz ==
    /\ served < MaxRequests
    /\ \E contents \in UploadContents, fn \in Filenames :
          LET fid == FileId("dataviz", contents, fn)
          IN  IF fn.ext \in {"csv", "xlsx"}
              THEN /\ cache' = (fid :> contents) @@ cache
                   /\ expected' = (fid :> Dataset(contents)) @@ expected
                   /\ resp' = Response("/api/data-viz/upload", 200, fid,
                                       contents, fn)
              ELSE /\ cache' = cache
                   /\ expected' = expected
                   /\ resp' = Failure("/api/data-viz/upload", 400,
                                      <<"Error uploading file">>, fid)
    /\ served' = served + 1
    /\ UNCHANGED <<frame, history, parked, cur, phase, jobs, stats, issued>>

\* the file is rewritten before the method is looked at
HandleNullsMut ==
    /\ served < MaxRequests
    /\ \E fid \in ClientIds, column \in Columns,
          method \in {"delete_column", "delete_row", "mean", "other"} :
          IF VizLoads(fid) /\ column \in DOMAIN VizParse(cache[fid]).cols
          THEN LET df == VizParse(cache[fid])
                   out == IF method = "delete_column"
                          THEN DropColumns(df, {column})
                          ELSE Patched(df)
               IN  /\ cache' = (fid :> ToCsv(out)) @@ cache
                   /\ expected' = expected
                   /\ resp' = IF method # "other"
                              THEN Response("/api/data-viz/handle-nulls", 200,
                                            fid, ToCsv(out), VizFilename(fid))
                              ELSE Failure("/api/data-viz/handle-nulls", 500,
                                           <<"Error handling nulls">>, fid)
          ELSE /\ cache' = cache
               /\ expected' = expected
               /\ resp' = Failure("/api/data-viz/handle-nulls", 500,
                                  <<"Error handling nulls">>, fid)
    /\ served' = served + 1
    /\ UNCHANGED <<frame, history, parked, cur, phase, jobs, stats, issued>>

\* POST /api/data-viz/handle-nulls
HandleNulls ==
    /\ served < MaxRequests
    /\ \E fid \in ClientIds, column \in Columns,
          method \in {"delete_column", "delete_row", "mean", "other"} :
          IF /\ VizLoads(fid)
             /\ column \in DOMAIN VizParse(cache[fid]).cols
             /\ method # "other"
          THEN LET df == VizParse(cache[fid])
                   out == IF method = "delete_column"
                          THEN DropColumns(df, {column})
                          ELSE Patched(df)
                   exp == IF fid \notin DOMAIN expected THEN df
                          ELSE IF method = "delete_column"
                          THEN DropColumns(expected[fid], {column})
                          ELSE Patched(expected[fid])
               IN  /\ cache' = (fid :> ToCsv(out)) @@ cache
                   /\ expected' = Expect(fid, exp)
                   /\ resp' = Response("/api/data-viz/handle-nulls", 200, fid,
                                       ToCsv(out), VizFilename(fid))
          ELSE /\ cache' = cache
               /\ expected' = expected
               /\ resp' = Failure("/api/data-viz/handle-nulls", 500,
                                  <<"Error handling nulls">>, fid)
    /\ served' = served + 1
    /\ UNCHANGED <<frame, history, parked, cur, phase, jobs, stats, issued>>

\* POST /api/data-viz/remove-correlated
RemoveCorrelated ==
    /\ served < MaxRequests
    /\ \E fid \in ClientIds, cols_to_remove \in SUBSET Columns :
          IF VizLoads(fid)
          THEN LET out == DropColumns(VizParse(cache[fid]), cols_to_remove)
                   exp == IF fid \notin DOMAIN expected THEN out
                          ELSE DropColumns(expected[fid], cols_to_remove)
               IN  /\ cache' = (fid :> ToCsv(out)) @@ cache
                   /\ expected' = Expect(fid, exp)
                   /\ resp' = Response("/api/data-viz/remove-correlated", 200,
                                       fid, ToCsv(out), VizFilename(fid))
          ELSE /\ cache' = cache
               /\ expected' = expected
               /\ resp' = Failure("/api/data-viz/remove-correlated", 500,
                                  <<"Error removing columns">>, fid)
    /\ served' = served + 1
    /\ UNCHANGED <<frame, history, parked, cur, phase, jobs, stats, issued>>

\* POST /api/data-viz/encode-categorical
EncodeCategorical ==
    /\ served < MaxRequests
    /\ \E fid \in ClientIds, column \in Columns,
          method \in {"label", "onehot", "other"} :
          IF /\ VizLoads(fid)
             /\ column \in DOMAIN VizParse(cache[fid]).cols
             /\ method # "other"
          THEN LET df == VizParse(cache[fid])
                   out == IF method = "label" THEN LabelEncoded(df, column)
                          ELSE OneHotEncoded(df, column)
                   exp == IF fid \notin DOMAIN expected THEN out
                          ELSE IF column \notin DOMAIN expected[fid].cols
                          THEN expected[fid]
                          ELSE IF method = "label"
                          THEN LabelEncoded(expected[fid], column)
                          ELSE OneHotEncoded(expected[fid], column)
               IN  /\ cache' = (fid :> ToCsv(out)) @@ cache
                   /\ expected' = Expect(fid, exp)
                   /\ resp' = Response("/api/data-viz/encode-categorical", 200,
                                       fid, ToCsv(out), VizFilename(fid))
          ELSE /\ cache' = cache
               /\ expected' = expected
               /\ resp' = Failure("/api/data-viz/encode-categorical", 500,
                                  <<"Error encoding column">>, fid)
    /\ served' = served + 1
    /\ UNCHANGED <<frame, history, parked, cur, phase, jobs, stats, issued>>

\* POST /api/data-viz/scatter-plot, histogram, correlation (the table read
\* with read_csv) and download-cleaned (the bytes of the file)
VizRead ==
    /\ served < MaxRequests
    /\ \E endpoint \in VizReadEndpoints, fid \in ClientIds, column \in Columns :
          IF endpoint = "/api/data-viz/download-cleaned"
          THEN IF fid \in DOMAIN cache /\ IdFields(fid) >= 3
               THEN resp' = Response(endpoint, 200, fid, cache[fid],
                                     VizFilename(fid))
               ELSE resp' = Failure(endpoint, 500,
                                    <<"Error downloading file">>, fid)
          ELSE IF /\ VizLoads(fid)
                  /\ IF endpoint = "/api/data-viz/correlation"
                     THEN DOMAIN VizParse(cache[fid]).cols # {JoinedColumn}
                     ELSE column \in DOMAIN VizParse(cache[fid]).cols
               THEN resp' = Response(endpoint, 200, fid, VizParse(cache[fid]),
                                     VizFilename(fid))
               ELSE resp' = Failure(endpoint, 500, <<"Error">>, fid)
    /\ served' = served + 1
    /\ UNCHANGED <<frame, history, parked, cur, phase, jobs, stats, cache, issued,
                   expected>>

\* POST /api/process, /api/process-raw, /api/plots/batch with a file_id:
\* the cache lookup and the parse inside the try block; the response
\* records the bytes read
ProcessCached ==
    /\ served < MaxRequests
    /\ \E endpoint \in ProcessEndpoints, fid \in ClientIds :
          IF fid \in DOMAIN cache
          THEN resp' = Response(endpoint,
                                IF Parses(cache[fid], MainFilename(fid))
                                THEN 200 ELSE 500,
                                fid, cache[fid], MainFilename(fid))
          ELSE LET e == Reraised(404, <<"Cached file not found", "file_id">>)
               IN  resp' = Failure(endpoint, e.status, e.detail, fid)
    /\ served' = served + 1
    /\ UNCHANGED <<frame, history, parked, cur, phase, jobs, stats, cache, issued,
                   expected>>

\* the same endpoints with neither file nor file_id
ProcessWithoutInput ==
    /\ served < MaxRequests
    /\ \E endpoint \in ProcessEndpoints :
          LET e == Reraised(400, <<"Either 'file' or 'file_id' must be provided">>)
          IN  resp' = Failure(endpoint, e.status, e.detail, NoId)
    /\ served' = served + 1
    /\ UNCHANGED <<frame, history, parked, cur, phase, jobs, stats, cache, issued,
                   expected>>

NextStore ==
    \/ UploadWithProgress
    \/ UploadDataViz
    \/ HandleNulls
    \/ RemoveCorrelated
    \/ EncodeCategorical
    \/ VizRead
    \/ ProcessCached
    \/ ProcessWithoutInput

SpecStore == InitStore /\ [][NextStore]_vars

----------------------------------------------------------------------------
(***************************************************************************)
(* The response-size limit of process_signal (main.py:507-518).  The three *)
(* arrays time_data, Signal and denoised_signal have the same length       *)
(* (denoised_signal is cut to len(Signal)), and all three are sliced with  *)
(* the same step, so one length stands for the three.                      *)
(***************************************************************************)

\* max_points = 15000
max_points == 15000

\* Longest signal drawn by InitDecimate.
MaxSignal == 30002

\* len(s[::step]) for a sequence s of n elements: the indices 0, step,
\* 2*step, ... below n
SliceLen(n, step) == (n + step - 1) \div step

\* step = len(time_data) // max_points
Step(n) == n \div max_points

\* the length of time_subset, raw_subset and denoised_subset
SubsetLen(n) ==
    IF n > max_points THEN SliceLen(n, Step(n)) ELSE n

InitDecimate ==
    /\ signal_len \in 1..MaxSignal
    /\ subset_len = 0
    /\ dec_pc = "start"
    /\ OutsideJobs
    /\ NoAnn
    /\ NoSvm

\* if len(time_data) > max_points: ... else: ...
LimitResponse ==
    /\ dec_pc = "start"
    /\ subset_len' = SubsetLen(signal_len)
    /\ dec_pc' = "done"
    /\ UNCHANGED <<frame, history, parked, cur, phase, stats, store,
                   signal_len, ann, svm>>

NextDecimate == LimitResponse

SpecDecimate == InitDecimate /\ [][NextDecimate]_vars

----------------------------------------------------------------------------
(***************************************************************************)
(* The ANN models of ann_router.py.  One action is one request, or one     *)
(* second passing, or a restart of the server process.  A fitted ANNModel  *)
(* is named by the number of the training that built it.                   *)
(***************************************************************************)

\* Last second of the clock.
MaxClock == 2

\* Most successful train requests in one behaviour.
MaxTrainings == 3

\* the ids of the uploaded ANN datasets (file and metadata in the cache),
\* and an id with no cached file
AnnFileIds == {"ann_a.csv", "ann_b.csv"}

AnnAbsentId == "ann_gone.csv"

\* hashlib.sha256(file_id.encode()).hexdigest()[:16]
FileIdDigest(file_id) ==
    CASE file_id = "ann_a.csv" -> "3f1c"
      [] file_id = "ann_b.csv" -> "b27e"
      [] OTHER -> "90aa"

\* f"ann_model_{digest}_{int(time.time())}"
ModelId(file_id, now) == [digest |-> FileIdDigest(file_id), time |-> now]

\* the model ids a client can send
ModelIds == {ModelId(f, t) : f \in AnnFileIds, t \in 0..MaxClock}

AnnResponse(kind, status, model_id, model) ==
    [kind |-> kind, status |-> status, model_id |-> model_id, model |-> model]

InitAnn ==
    /\ NoAnn
    /\ OutsideJobs
    /\ NoDecim
    /\ NoSvm

\* int(time.time()) grows
Tick ==
    /\ clock < MaxClock
    /\ clock' = clock + 1
    /\ UNCHANGED <<frame, history, parked, cur, phase, stats, store, decim,
                   svm, model_files, ACTIVE_MODELS, model_ids, trainings,
                   ann_resp>>

\* POST /api/ann/train: a missing cached file raises 404 inside the try and
\* is answered 500; otherwise the model is fitted, pickled under model_id
\* and put into ACTIVE_MODELS
train_ann_model(file_id) ==
    /\ trainings < MaxTrainings
    /\ IF file_id \notin AnnFileIds
       THEN /\ ann_resp' = AnnResponse("train", 500, NoModelId, 0)
            /\ UNCHANGED <<model_files, ACTIVE_MODELS, model_ids, trainings>>
       ELSE LET ann_model == trainings + 1
                model_id == ModelId(file_id, clock)
            IN  /\ model_files' = (model_id :> ann_model) @@ model_files
                /\ ACTIVE_MODELS' = (model_id :> ann_model) @@ ACTIVE_MODELS
                /\ model_ids' = Append(model_ids, model_id)
                /\ trainings' = trainings + 1
                /\ ann_resp' = AnnResponse("train", 200, model_id, ann_model)
    /\ UNCHANGED <<frame, history, parked, cur, phase, stats, store, decim,
                   svm, clock>>

\* POST /api/ann/predict: the model of ACTIVE_MODELS, else the pickle file,
\* else 404 raised inside the try and answered 500
predict_ann(model_id) ==
    /\ IF model_id \in DOMAIN ACTIVE_MODELS
       THEN /\ ann_resp' = AnnResponse("predict", 200, model_id,
                                       ACTIVE_MODELS[model_id])
            /\ UNCHANGED ACTIVE_MODELS
       ELSE IF model_id \in DOMAIN model_files
       THEN /\ ACTIVE_MODELS' =
                    (model_id :> model_files[model_id]) @@ ACTIVE_MODELS
            /\ ann_resp' = AnnResponse("predict", 200, model_id,
                                       model_files[model_id])
       ELSE /\ ann_resp' = AnnResponse("predict", 500, model_id, 0)
            /\ UNCHANGED ACTIVE_MODELS
    /\ UNCHANGED <<frame, history, parked, cur, phase, stats, store, decim,
                   svm, clock, model_files, model_ids, trainings>>

\* the server process starts again: ACTIVE_MODELS = {}
RestartServer ==
    /\ ACTIVE_MODELS # <<>>
    /\ ACTIVE_MODELS' = <<>>
    /\ UNCHANGED <<frame, history, parked, cur, phase, stats, store, decim,
                   svm, clock, model_files, model_ids, trainings, ann_resp>>

NextAnn ==
    \/ Tick
    \/ \E file_id \in AnnFileIds \cup {AnnAbsentId} : train_ann_model(file_id)
    \/ \E model_id \in ModelIds : predict_ann(model_id)
    \/ RestartServer

SpecAnn == InitAnn /\ [][NextAnn]_vars

----------------------------------------------------------------------------
(***************************************************************************)
(* The selection of the best model in train_svm_model (main.py).  Init     *)
(* draws the two parameter lists and the AUC that roc_auc_score yields for *)
(* each fitted pair; FitPair is one pass of the inner loop body, SaveBest  *)
(* is everything after the loops.  A fitted estimator is named by the pair *)
(* it was fitted for.                                                      *)
(***************************************************************************)

\* Longest test_size_list and kernel_list drawn by InitSvm.
MaxTestSizes == 2

MaxKernels == 2

TestSizes == {"0.2", "0.3"}

Kernels == {"poly", "rbf", "linear"}

\* roc_auc_score lies in [0, 1]; kept as twice its value: 0, 0.5, 1
AucVals == {0, 1, 2}

\* the lists of 1..n different elements of S
DistinctSeqs(S, n) ==
    UNION {{s \in [1..k -> S] : \A p, q \in 1..k : p # q => s[p] # s[q]} :
           k \in 1..n}

Pairs(tl, kl) == {<<tl[p], kl[q]>> : p \in 1..Len(tl), q \in 1..Len(kl)}

\* searcher.best_estimator_ of one pass
Estimator(test_size, kernel) == [test_size |-> test_size, kernel |-> kernel]

\* job_id = str(uuid.uuid4())[:8] of the one request of a behaviour
JobId == "job_1"

SvmResponse(status, job_id, best_model) ==
    [kind |-> "train", status |-> status, job_id |-> job_id,
     best_model |-> best_model]

\* all_results = {}; best_overall_model = None; best_overall_auc = 0;
\* best_overall_config = {}
InitSvm ==
    /\ test_size_list \in DistinctSeqs(TestSizes, MaxTestSizes)
    /\ kernel_list \in DistinctSeqs(Kernels, MaxKernels)
    /\ auc_of \in [Pairs(test_size_list, kernel_list) -> AucVals]
    /\ ts_pos = 1
    /\ kernel_pos = 1
    /\ best_overall_model = NoModel
    /\ best_overall_auc = 0
    /\ best_overall_config = NoConfig
    /\ svm_files = <<>>
    /\ svm_resp = [kind |-> "none"]
    /\ svm_pc = "loop"
    /\ OutsideJobs
    /\ NoDecim
    /\ NoAnn

\* one pass of "for kernel in kernel_list" inside "for test_size in
\* test_size_list": fit, score, if auc_score > best_overall_auc: ...
FitPair ==
    /\ svm_pc = "loop"
    /\ LET test_size == test_size_list[ts_pos]
           kernel == kernel_list[kernel_pos]
           auc_score == auc_of[<<test_size, kernel>>]
       IN  IF auc_score > best_overall_auc
           THEN /\ best_overall_auc' = auc_score
                /\ best_overall_model' = Estimator(test_size, kernel)
                /\ best_overall_config' =
                       [kernel |-> kernel, test_size |-> test_size,
                        auc |-> auc_score]
           ELSE UNCHANGED <<best_overall_auc, best_overall_model,
                            best_overall_config>>
    /\ IF kernel_pos < Len(kernel_list)
       THEN /\ kernel_pos' = kernel_pos + 1
            /\ UNCHANGED <<ts_pos, svm_pc>>
       ELSE IF ts_pos < Len(test_size_list)
       THEN /\ kernel_pos' = 1
            /\ ts_pos' = ts_pos + 1
            /\ UNCHANGED svm_pc
       ELSE /\ svm_pc' = "save"
            /\ UNCHANGED <<ts_pos, kernel_pos>>
    /\ UNCHANGED <<frame, history, parked, cur, phase, stats, store, decim,
                   ann, test_size_list, kernel_list, auc_of, svm_files,
                   svm_resp>>

\* pickle.dump(model_data, f) under job_id, then the print and the return
\* read best_overall_config['kernel']: a KeyError while the config is {},
\* answered 500 by the except clause
SaveBest ==
    /\ svm_pc = "save"
    /\ svm_files' = (JobId :> [model |-> best_overall_model,
                               config |-> best_overall_config]) @@ svm_files
    /\ svm_resp' = IF best_overall_config = NoConfig
                   THEN SvmResponse(500, "none", NoConfig)
                   ELSE SvmResponse(200, JobId, best_overall_config)
    /\ svm_pc' = "done"
    /\ UNCHANGED <<frame, history, parked, cur, phase, stats, store, decim,
                   ann, test_size_list, kernel_list, auc_of, ts_pos,
                   kernel_pos, best_overall_model, best_overall_auc,
                   best_overall_config>>

NextSvm == FitPair \/ SaveBest

SpecSvm == InitSvm /\ [][NextSvm]_vars

----------------------------------------------------------------------------
Done == pc = "done"

Returned == pc = "done" /\ outcome = "return"

\* the Series invariant len(x) == len(y)
EqualLen == Len(x_data) = Len(y_data)

Downsampling == EqualLen /\ data_length > target_points /\ target_points >= 3

StrictlyIncreasing(s) == \A k \in 1..(Len(s) - 1) : s[k] < s[k + 1]

\* C1: for n = len(x) = len(y) and n > target_points >= 2 the call returns
\* two sequences of length exactly target_points.
C1_ExactLength ==
    (Done /\ EqualLen /\ data_length > target_points /\ target_points >= 2)
        => /\ outcome = "return"
           /\ Len(ret_x) = target_points
           /\ Len(ret_y) = target_points

\* C2: whenever the call returns on an input with n >= 1, the first and the
\* last returned point are the first and the last source point.
C2_Endpoints ==
    (Returned /\ EqualLen /\ data_length >= 1)
        => /\ Len(ret_x) >= 1 /\ Len(ret_y) >= 1
           /\ ret_x[1] = x_data[1]
           /\ ret_y[1] = y_data[1]
           /\ ret_x[Len(ret_x)] = x_data[data_length]
           /\ ret_y[Len(ret_y)] = y_data[data_length]

C2_Witness ==
    /\ Returned /\ Downsampling
    /\ Len(ret_x) < data_length
    /\ x_data[data_length] # x_data[data_length - 1]
    /\ ret_x[Len(ret_x)] = x_data[data_length]

\* C3: for n <= target_points the call returns (x, y) exactly.
C3_Identity ==
    (Done /\ EqualLen /\ data_length <= target_points)
        => /\ outcome = "return"
           /\ ret_x = x_data
           /\ ret_y = y_data

C3_Witness ==
    /\ Returned /\ EqualLen
    /\ data_length = target_points /\ data_length >= 2
    /\ ret_x = x_data /\ ret_y = y_data

\* C4: for every n >= 0 and target_points >= 0, a returned pair has length
\* at most target_points.
C4_LengthBound ==
    (Returned /\ EqualLen)
        => /\ Len(ret_x) <= target_points
           /\ Len(ret_y) <= target_points

\* C5: with target_points < 2 and n > target_points the call ends in an
\* InvalidArgument error outcome and returns nothing.
C5_InvalidArgument ==
    (Done /\ EqualLen /\ target_points < 2 /\ data_length > target_points)
        => outcome = "InvalidArgument"

\* C6: no call ends in a division-by-zero exception from
\* bucket_size = (n - 2) / (target_points - 2).
C6_NoZeroDivision ==
    (Done /\ EqualLen) => outcome # "ZeroDivisionError"

\* C7: with len(x) # len(y) the call ends in an InvalidArgument error
\* outcome and never returns an output pair.
C7_MismatchRejected ==
    (Done /\ ~EqualLen) => outcome = "InvalidArgument"

\* C8: for n = 0 and n = 1, with any target_points >= 0, the call does not
\* raise and returns its input unchanged.
C8_EmptySingleton ==
    (Done /\ EqualLen /\ data_length <= 1)
        => /\ outcome = "return"
           /\ Len(ret_x) = data_length
           /\ Len(ret_y) = data_length
           /\ \A k \in 1..data_length : ret_x[k] = x_data[k] /\ ret_y[k] = y_data[k]

\* C9: for n > target_points >= 3 the emitted source indices are strictly
\* increasing, start at 0 and end at n-1; a is the latest emitted index,
\* the bucket of each iteration lies strictly to the right of a, and the
\* returned pair is the source read at the emitted indices.
C9_MonotonicIndices ==
    Downsampling =>
        /\ StrictlyIncreasing(sampled_idx)
        /\ (Len(sampled_idx) >= 1 => sampled_idx[1] = 0)
        /\ (pc = "loop" => a = sampled_idx[Len(sampled_idx)])
        /\ ((pc = "loop" /\ i < target_points - 2)
                => a < range_offs /\ range_offs < range_to /\ NextA > a)
        /\ (Returned =>
                /\ sampled_idx[Len(sampled_idx)] = data_length - 1
                /\ Len(ret_x) = Len(sampled_idx)
                /\ Len(ret_y) = Len(sampled_idx)
                /\ \A k \in 1..Len(sampled_idx) :
                      /\ ret_x[k] = At(x_data, sampled_idx[k])
                      /\ ret_y[k] = At(y_data, sampled_idx[k]))

C9_Witness ==
    /\ Returned /\ Downsampling
    /\ target_points >= 4
    /\ Len(sampled_idx) = target_points
    /\ sampled_idx[3] > sampled_idx[2] + 1

\* C10: every returned point is a source point (x[j], y[j]) for one index j,
\* so min(y') and max(y') lie within [min(y), max(y)].
C10_OutputFromSource ==
    (Returned /\ EqualLen) =>
        /\ Len(ret_x) = Len(ret_y)
        /\ \A k \in 1..Len(ret_x) :
              \E j \in 1..data_length :
                  ret_x[k] = x_data[j] /\ ret_y[k] = y_data[j]
        /\ \A k \in 1..Len(ret_y) :
              /\ \E j \in 1..data_length : y_data[j] <= ret_y[k]
              /\ \E j \in 1..data_length : y_data[j] >= ret_y[k]

C10_Witness ==
    /\ Returned /\ Downsampling
    /\ Len(ret_x) = target_points
    /\ \E u \in XVals, v \in YVals :
          \A j \in 1..data_length : <<x_data[j], y_data[j]>> # <<u, v>>
    /\ \E k \in 2..(Len(ret_y) - 1) : ret_y[k] # ret_y[k - 1]

\* C11: for x = 0..9, y = 0,1,0,1,..., target_points = 4 the buckets are
\* [1,5) and [5,9), the interior points are the first area-maximising
\* indices 1 and 6, and the call returns x' = [0,1,6,9], y' = [0,1,0,1].
C11_Scenario ==
    (x_data = Ramp(10) /\ y_data = Alt01(10) /\ target_points = 4) =>
        /\ (pc = "loop" /\ i = 0 =>
                range_offs = 1 /\ range_to = 5 /\ NextA = 1)
        /\ (pc = "loop" /\ i = 1 =>
                range_offs = 5 /\ range_to = 9 /\ NextA = 6)
        /\ (Done =>
                /\ outcome = "return"
                /\ sampled_idx = <<0, 1, 6, 9>>
                /\ ret_x = <<0, 1, 6, 9>>
                /\ ret_y = <<0, 1, 0, 1>>)

C11_Witness ==
    /\ Returned
    /\ x_data = Ramp(10) /\ y_data = Alt01(10) /\ target_points = 4
    /\ Len(ret_x) = 4 /\ ret_x[3] = 6

C13_NoAliasing ==
    Returned => ret_alias = "new"

\* C14: two calls that share the processor, under every interleaving of
\* their steps, each end with the result they have when run alone.
C14_Isolation ==
    phase = "conc" =>
        /\ (pc = "done" => Result = history[cur])
        /\ (parked.pc = "done" => ResultOf(parked) = history[3 - cur])

C14_Witness ==
    /\ phase = "conc"
    /\ Returned /\ Downsampling /\ target_points >= 4
    /\ Result = history[cur]
    /\ parked.pc = "loop" /\ parked.i >= 1
    /\ parked.x_data # x_data

\* C17: for n > target_points >= 3, with the ratio (n-2)/(target_points-2)
\* taken exactly, bucket i is [floor(i*bs)+1, floor((i+1)*bs)+1), it is not
\* empty, and the candidates visited are 1, 2, ..., n-2, each once.
\* the double products k*bucket_size of this call all floor to the exact quotient
ExactRatio ==
    \A k \in 0..target_points :
        FloatFloor(k, data_length - 2, target_points - 2)
            = ExactFloor(k, data_length - 2, target_points - 2)

C17_BucketsPartition ==
    (Downsampling /\ ExactRatio) =>
        /\ ((pc = "loop" /\ i < target_points - 2) =>
                /\ range_offs = ExactFloor(i, data_length - 2, target_points - 2) + 1
                /\ range_to = ExactFloor(i + 1, data_length - 2, target_points - 2) + 1
                /\ range_offs < range_to)
        /\ (pc = "loop" => scanned = [k \in 1..(range_offs - 1) |-> k])
        /\ (Returned => scanned = [k \in 1..(data_length - 2) |-> k])

C17_Witness ==
    /\ Returned /\ Downsampling /\ ExactRatio
    /\ target_points >= 4
    /\ (data_length - 2) % (target_points - 2) # 0
    /\ Len(scanned) = data_length - 2

\* first index of the current bucket whose area is the maximum of the bucket
FirstMaxIdx ==
    IF range_offs >= range_to THEN range_offs
    ELSE CHOOSE j \in range_offs..(range_to - 1) :
            /\ \A k \in range_offs..(range_to - 1) : Area(k) <= Area(j)
            /\ \A k \in range_offs..(j - 1) : Area(k) < Area(j)

\* C18: every iteration emits the smallest index of the current bucket whose
\* triangle area is the maximum over the bucket, and that index is the next a.
C18_FirstMaximum ==
    [][(pc = "loop" /\ pc' = "loop" /\ Downsampling) =>
          /\ a' = FirstMaxIdx
          /\ sampled_idx' = Append(sampled_idx, FirstMaxIdx)
          /\ sampled_x' = Append(sampled_x, At(x_data, FirstMaxIdx))
          /\ sampled_y' = Append(sampled_y, At(y_data, FirstMaxIdx))]_vars

C18_Witness ==
    /\ pc = "loop" /\ Downsampling /\ i >= 1
    /\ EqualLen /\ i < target_points - 2
    /\ a = sampled_idx[Len(sampled_idx)]
    /\ \E j \in range_offs..(range_to - 1) :
          /\ j > NextA
          /\ Area(j) = Area(NextA)
          /\ Area(j) > 0

\* length of the averaging window of iteration k for data_length n
AvgLenAt(n, tp, k) ==
    Min(FloatFloor(k + 2, n - 2, tp - 2) + 1, n)
        - (FloatFloor(k + 1, n - 2, tp - 2) + 1)

\* C19 as claimed: there are n > target_points >= 3 with an iteration whose
\* averaging window is empty.
C19_EmptyWindowExists ==
    /\ pc \in {"start", "bucket", "loop", "done"}
    /\ \E n \in 4..17 : \E tp \in 3..(n - 1) : \E k \in 0..(tp - 3) :
          AvgLenAt(n, tp, k) = 0

\* C19 as amended: for n > target_points >= 3 the averaging window of every
\* iteration holds at least one index, so the apex is never left at (0, 0).
C19_WindowNeverEmpty ==
    (Downsampling /\ pc = "loop" /\ i < target_points - 2) =>
        /\ avg_range_length >= 1
        /\ avg_range_length = AvgLenAt(data_length, target_points, i)
        /\ AvgScale = avg_range_length

C19_Witness ==
    /\ Downsampling /\ pc = "loop"
    /\ i = 1 /\ i < target_points - 2
    /\ avg_range_length = 1
    /\ (data_length - 2) % (target_points - 2) # 0

\* C20: the averaging window of iteration i is the candidate bucket of
\* iteration i+1, and for the last iteration it is the single index n-1.
C20_AveragingWindow ==
    [][(pc = "loop" /\ i < target_points - 2 /\ Downsampling) =>
          /\ avg_range_start = FloorMul(i + 1) + 1
          /\ avg_range_end = Min(FloorMul(i + 2) + 1, data_length)
          /\ (i < target_points - 3 /\ pc' = "loop" =>
                 /\ range_offs' = avg_range_start
                 /\ range_to' = avg_range_end)
          /\ (i = target_points - 3 =>
                 /\ avg_range_start = data_length - 1
                 /\ avg_range_end = data_length)]_vars

\* C15: a process request with a file id that /api/upload-with-progress has
\* returned finds the cached file and reads exactly the decompressed bytes of
\* that upload under the original filename, whatever was served in between.
C15_CachedUploadStable ==
    (resp.kind \in ProcessEndpoints /\ resp.file_id \in DOMAIN issued) =>
        /\ resp.contents # NoContents
        /\ resp.contents = issued[resp.file_id].contents
        /\ resp.filename = issued[resp.file_id].filename

Finite == {"v", "0.0"}

\* the first statistic whose assignment raises, one past the last if none
FailAt ==
    LET bad == {k \in 1..Len(TryKeys) : stat_in[k] \in {"raises", "huge"}}
    IN  IF bad = {} THEN Len(TryKeys) + 1
        ELSE CHOOSE k \in bad : \A j \in bad : k <= j

\* C16: the returned dict holds all 24 keys, every value finite; a non-finite
\* result is stored as 0.0, the keys assigned before an exception keep their
\* value and every later key is 0.0.
C16_AllKeysFinite ==
    stat_pc = "returned" =>
        /\ DOMAIN params = Range(TryKeys)
        /\ Cardinality(DOMAIN params) = 24
        /\ \A key \in DOMAIN params : params[key] \in Finite
        /\ \A k \in 1..Len(TryKeys) :
              params[TryKeys[k]] =
                  IF k < FailAt /\ stat_in[k] = "v" THEN "v" ELSE "0.0"

C16_Witness ==
    /\ stat_pc = "returned"
    /\ FailAt \in 3..Len(TryKeys)
    /\ \E k \in 2..(FailAt - 1) :
          /\ stat_in[k] \in {"nan", "inf"}
          /\ params[TryKeys[k]] = "0.0"
    /\ params[TryKeys[1]] = "v"
    /\ params[TryKeys[Len(TryKeys)]] = "0.0"

\* candidates of the current bucket whose area is a number
ValidCandidates == {j \in range_offs..(range_to - 1) : ~AreaIsNaN(j)}

\* C21: an iteration never emits a candidate of NaN area when the bucket has
\* a candidate whose area is a number; when every area of the bucket is NaN
\* it emits the first index of the bucket; the call does not raise.
C21_NaNNeverSelected ==
    /\ [](Downsampling => outcome \in {"none", "return"})
    /\ [][(pc = "loop" /\ pc' = "loop" /\ Downsampling) =>
             /\ (ValidCandidates # {} => a' \in ValidCandidates)
             /\ (ValidCandidates = {} => a' = range_offs)
             /\ sampled_idx' = Append(sampled_idx, a')]_vars

C21_Witness ==
    /\ Returned /\ Downsampling
    /\ \E k \in 2..(Len(sampled_idx) - 1) :
          /\ At(y_data, sampled_idx[k]) # NaN
          /\ At(y_data, sampled_idx[k] - 1) = NaN
          /\ sampled_idx[k] - 1 > sampled_idx[k - 1]

SeqMax(s) == CHOOSE v \in Range(s) : \A w \in Range(s) : w <= v

SeqMin(s) == CHOOSE v \in Range(s) : \A w \in Range(s) : v <= w

\* C22: the candidate emitted is one of largest area in its bucket, whatever
\* its y; the largest and the smallest y of the source need not be emitted.
C22_AreaDecides ==
    [][(pc = "loop" /\ pc' = "loop" /\ Downsampling) =>
          \A j \in (ExactFloor(i, data_length - 2, target_points - 2) + 1)
                   .. ExactFloor(i + 1, data_length - 2, target_points - 2) :
              ~AreaIsNaN(j) => (~AreaIsNaN(a') /\ Area(j) <= Area(a'))]_vars

C22_Witness ==
    /\ Returned /\ Downsampling
    /\ x_data = Ramp(data_length)
    /\ NaN \notin Range(y_data)
    /\ SeqMax(ret_y) < SeqMax(y_data)
    /\ SeqMin(ret_y) = SeqMin(y_data)

\* C23: a process request whose file_id names no cached file is answered
\* with status 404 and detail 'Cached file not found: <file_id>'; a request
\* with neither file nor file_id is answered with status 400.
C23_NotFoundIs404 ==
    resp.kind \in ProcessEndpoints =>
        /\ (resp.file_id # NoId /\ resp.file_id \notin DOMAIN cache) =>
               /\ resp.status = 404
               /\ resp.detail = <<"Cached file not found", "file_id">>
        /\ (resp.file_id = NoId => resp.status = 400)

\* C24: an upload-with-progress request answered with an error leaves the
\* cache as it was.
C24_FailedUploadLeavesCache ==
    [][(/\ served' = served + 1
        /\ resp'.kind = "/api/upload-with-progress"
        /\ resp'.status # 200) => cache' = cache]_vars

\* C26: a data-viz read of file id F returns the dataset of the latest upload
\* of F with every later successful cleaning request on F applied in order;
\* an upload sets F to the uploaded bytes.
C26_ReadsSeeCleanedDataset ==
    /\ (/\ resp.kind \in VizReadEndpoints
        /\ resp.status = 200
        /\ resp.file_id \in DOMAIN expected)
           => Dataset(resp.contents) = expected[resp.file_id]
    /\ (resp.kind = "/api/data-viz/upload" /\ resp.status = 200)
           => cache[resp.file_id] = resp.contents

\* C27: a cleaning request answered with an error leaves every cached file
\* as it was.
C27_FailedCleaningLeavesCache ==
    [][(/\ served' = served + 1
        /\ resp'.kind \in CleaningEndpoints
        /\ resp'.status # 200) => cache' = cache]_vars

C27_Witness ==
    /\ resp.kind \in CleaningEndpoints
    /\ resp.status = 500
    /\ resp.file_id \in DOMAIN cache
    /\ resp.file_id.prefix = "dataviz"
    /\ cache[resp.file_id].delim = "comma"
    /\ served >= 2

\* C28: the column '<column>_original' of a data-viz dataset holds the values
\* the column had when uploaded, however often the column was encoded.
C28_OriginalKept ==
    \A fid \in DOMAIN cache :
        fid.prefix = "dataviz" =>
            \A c \in Columns :
                Original(c) \in DOMAIN cache[fid].cols =>
                    cache[fid].cols[Original(c)] = 0

\* C25: when the signal has more than max_points samples, each of the
\* time, raw_signal and denoised_signal arrays of the /api/process response
\* has at most max_points elements.
C25_AtMostMaxPoints ==
    (dec_pc = "done" /\ signal_len > max_points) => subset_len <= max_points

\* C29: every successful /api/ann/train request returns a model_id
\* different from that of every earlier successful one, and the model each
\* of them stored is still the one stored under its id.
C29_ModelIdsDistinct ==
    /\ \A p, q \in 1..Len(model_ids) : p # q => model_ids[p] # model_ids[q]
    /\ \A p \in 1..Len(model_ids) : model_files[model_ids[p]] = p

\* the place of a pair in the order of training: test sizes in the outer
\* loop, kernels in the inner loop
PairPlace(p, q) == (p - 1) * Len(kernel_list) + q

\* the pair with the highest AUC, the first trained among equals
HighestAuc ==
    CHOOSE pq \in (1..Len(test_size_list)) \X (1..Len(kernel_list)) :
        \A rs \in (1..Len(test_size_list)) \X (1..Len(kernel_list)) :
            LET auc_pq == auc_of[<<test_size_list[pq[1]], kernel_list[pq[2]]>>]
                auc_rs == auc_of[<<test_size_list[rs[1]], kernel_list[rs[2]]>>]
            IN  \/ auc_pq > auc_rs
                \/ /\ auc_pq = auc_rs
                   /\ PairPlace(pq[1], pq[2]) <= PairPlace(rs[1], rs[2])

\* C30: /api/svm/train reports as best_model the pair with the highest AUC,
\* the first trained among equals, and the model saved under job_id is that
\* pair's fitted estimator, for every combination of AUC values.
C30_BestIsHighestAuc ==
    svm_pc = "done" =>
        LET test_size == test_size_list[HighestAuc[1]]
            kernel == kernel_list[HighestAuc[2]]
        IN  /\ svm_resp.status = 200
            /\ svm_resp.best_model.kernel = kernel
            /\ svm_resp.best_model.test_size = test_size
            /\ svm_resp.best_model.auc = auc_of[<<test_size, kernel>>]
            /\ svm_files[svm_resp.job_id].model = Estimator(test_size, kernel)

====
